---- MODULE Spec2Model ----
(***************************************************************************)
(* Model of src/highway_precision.py: the KML loader, the nearest-marker   *)
(* lookup and the coordinate form of the highway mileage tool.             *)
(*                                                                         *)
(* Coordinates of markers and of decimal-degree queries are integers: the  *)
(* offset, in thousandths of a degree, from the default coordinate of the  *)
(* decimal-degree form, 25.048 N / 121.517 E.  Lengths are decimetres.     *)
(* The DMS form is modelled in thousandths of an arc second (3 600 000 per *)
(* degree), the grain of its seconds field.                                *)
(* Coordinates are finite numbers: the values float() accepts that are     *)
(* no number (nan, inf) are outside the model.                             *)
(***************************************************************************)
EXTENDS Integers, Sequences, FiniteSets

VARIABLES
  data_folder,\* the *.kml files of ./data/ in glob order: [base, readable, content]
  phase,      \* "start" before the first script run, then "form" or "nodata"
  cache,      \* what st.cache_data holds for load_all_kml_data: a frame or None
  warnings,   \* basenames of the files st.warning was shown for
  shown,      \* the error/success messages on the page
  df_all,     \* the frame the script holds (line 89), scratch columns included
  u_lat,      \* latitude in the decimal-degree input
  u_lon,      \* longitude in the decimal-degree input
  result,     \* what the last find_nearest_point call returned, or None
  form,       \* the six number inputs of the DMS form
  dd,         \* u_lat/u_lon as converted from the DMS form
  passed,     \* the coordinate the DMS run handed to find_nearest_point, or None
  input_type, \* the radio of line 97: "DD" or "DMS"
  stale       \* whether the frame of the last call already held scratch columns

vars == << data_folder, phase, cache, warnings, shown, df_all, u_lat, u_lon, result,
           form, dd, passed, input_type, stale >>
ddVars == << u_lat, u_lon, result, stale >>
dmsVars == << form, dd, passed, input_type >>

\* ------------------------------------------------------------------ bounds
\* Largest coordinate offset of a marker part or of a decimal-degree query.
GridMax == 3
\* Most placemarks in one file.
MaxEntries == 2

Grid == 0..GridMax

\* ------------------------------------------------------------ Python values
\* Python's None (a missing table, a missing result).
None == [none |-> TRUE]

\* A comma-separated part that float() rejects (ValueError).
BAD == -1
IsFloat(part) == part # BAD

\* The placemark label used when a placemark has no <name> (line 42).
Unnamed == "unnamed"

\* --------------------------------------------------------------- DataFrames
\* A frame is a record of columns; every column is a sequence of the same
\* length, and "index" holds the row labels.
NRows(df) == Len(df.index)

\* pd.DataFrame([]) : no rows and no columns but the index.
EmptyFrame == [index |-> << >>]

\* pd.DataFrame(data_list) for a list of {'name','lat','lon'} dicts (line 54):
\* a RangeIndex 0..n-1 and one column per key.
DataFrame(data_list) ==
  IF data_list = << >> THEN EmptyFrame
  ELSE [index |-> [i \in 1..Len(data_list) |-> i - 1],
        name  |-> [i \in 1..Len(data_list) |-> data_list[i].name],
        lat   |-> [i \in 1..Len(data_list) |-> data_list[i].lat],
        lon   |-> [i \in 1..Len(data_list) |-> data_list[i].lon]]

\* Variant: a column that exists is kept as it is.
SetColumn_keep(df, col, vals) ==
  [c \in (DOMAIN df) \cup {col} |-> IF c = col /\ c \notin DOMAIN df THEN vals ELSE df[c]]

\* df[col] = vals : the column is added, or overwritten when it exists.
SetColumn(df, col, vals) ==
  [c \in (DOMAIN df) \cup {col} |-> IF c = col THEN vals ELSE df[c]]

\* A scalar assigned to a column is broadcast to every row (line 62).
Broadcast(df, v) == [i \in 1..NRows(df) |-> v]

RECURSIVE ConcatColumn(_, _)
ConcatColumn(frames, col) ==
  IF frames = << >> THEN << >>
  ELSE frames[1][col] \o ConcatColumn(Tail(frames), col)

\* pd.concat(all_data, ignore_index=True) (line 68): the rows of the frames in
\* list order under a fresh RangeIndex.
concat(frames) ==
  LET n == Len(ConcatColumn(frames, "name"))
  IN  [index  |-> [i \in 1..n |-> i - 1],
       name   |-> ConcatColumn(frames, "name"),
       lat    |-> ConcatColumn(frames, "lat"),
       lon    |-> ConcatColumn(frames, "lon"),
       source |-> ConcatColumn(frames, "source")]

\* The marker columns of a frame, without the scratch columns.
MarkerColumns == {"index", "name", "lat", "lon", "source"}
ScratchColumns == {"diff_lat", "diff_lon", "dist_sq"}
Markers(df) == [c \in (DOMAIN df) \cap MarkerColumns |-> df[c]]

\* ------------------------------------------------------------------ loader
\* A placemark: an optional <name>, an optional <coordinates> tag whose text
\* is a whitespace-separated list of tuples, each a list of comma-separated
\* parts (KML writes lon,lat[,alt]).
Placemark(hasName, name, hasCoord, tuples) ==
  [hasName |-> hasName, name |-> name, hasCoord |-> hasCoord, tuples |-> tuples]

\* One pass of the loop body of parse_kml_content (lines 41-53): the list of
\* dicts the placemark appends to data_list, empty when the placemark is
\* skipped.  coords_text.split()[0] of a blank text raises IndexError and
\* float() of a rejected part raises ValueError; both are caught by the
\* except of the same iteration, which goes on with the next placemark.
ParsePlacemark(p) ==
  LET name == IF p.hasName THEN p.name ELSE Unnamed
  IN  IF ~p.hasCoord THEN << >>
      ELSE IF p.tuples = << >> THEN << >>
      ELSE LET parts == p.tuples[1]
           IN  IF Len(parts) >= 2
               THEN IF IsFloat(parts[1]) /\ IsFloat(parts[2])
                    THEN << [name |-> name, lat |-> parts[2], lon |-> parts[1]] >>
                    ELSE << >>
               ELSE << >>

\* Whether the loop body raises on the placemark (IndexError, ValueError).
Raises(p) ==
  /\ p.hasCoord
  /\ \/ p.tuples = << >>
     \/ /\ Len(p.tuples[1]) >= 2
        /\ ~(IsFloat(p.tuples[1][1]) /\ IsFloat(p.tuples[1][2]))

\* Variant: the try encloses the whole loop, so the first placemark that
\* raises ends the parse of the file.
RECURSIVE ParseLoop_abort(_)
ParseLoop_abort(placemarks) ==
  IF placemarks = << >> \/ Raises(placemarks[1]) THEN << >>
  ELSE ParsePlacemark(placemarks[1]) \o ParseLoop_abort(Tail(placemarks))

\* The data_list built by the loop of parse_kml_content over the placemarks
\* in document order (lines 39-53).
RECURSIVE ParseLoop(_)
ParseLoop(placemarks) ==
  IF placemarks = << >> THEN << >>
  ELSE ParsePlacemark(placemarks[1]) \o ParseLoop(Tail(placemarks))

parse_kml_content(kml_content) == DataFrame(ParseLoop(kml_content))

\* Variant: the first unreadable file ends the loop.
RECURSIVE LoadLoop_abort(_, _, _, _)
LoadLoop_abort(kml_files, i, all_data, warned) ==
  IF i > Len(kml_files) THEN [all_data |-> all_data, warned |-> warned]
  ELSE LET f == kml_files[i]
       IN  IF ~f.readable
           THEN [all_data |-> all_data, warned |-> warned \cup {f.base}]
           ELSE LET df_kml == parse_kml_content(f.content)
                IN  IF NRows(df_kml) # 0
                    THEN LoadLoop_abort(kml_files, i + 1,
                           Append(all_data,
                                  SetColumn(df_kml, "source", Broadcast(df_kml, f.base))),
                           warned)
                    ELSE LoadLoop_abort(kml_files, i + 1, all_data, warned)

\* The for loop of load_all_kml_data (lines 56-65) from file i on: all_data
\* and the basenames warned about.  open()/read() of an unreadable file
\* raises; the except warns and the loop goes on with the next file.
RECURSIVE LoadLoop(_, _, _, _)
LoadLoop(kml_files, i, all_data, warned) ==
  IF i > Len(kml_files) THEN [all_data |-> all_data, warned |-> warned]
  ELSE LET f == kml_files[i]
       IN  IF ~f.readable
           THEN LoadLoop(kml_files, i + 1, all_data, warned \cup {f.base})
           ELSE LET df_kml == parse_kml_content(f.content)
                IN  IF NRows(df_kml) # 0
                    THEN LoadLoop(kml_files, i + 1,
                           Append(all_data,
                                  SetColumn(df_kml, "source", Broadcast(df_kml, f.base))),
                           warned)
                    ELSE LoadLoop(kml_files, i + 1, all_data, warned)

\* Variant: without the test of line 67, an empty frame is returned when no
\* file yields a point.
load_all_kml_data_no_test(kml_files) ==
  IF kml_files = << >>
  THEN [ret |-> None, warned |-> {}, errors |-> {"no_kml_files"}]
  ELSE LET l == LoadLoop(kml_files, 1, << >>, {})
       IN  IF l.all_data # << >>
           THEN [ret |-> concat(l.all_data), warned |-> l.warned, errors |-> {}]
           ELSE [ret |-> EmptyFrame, warned |-> l.warned, errors |-> {}]

\* load_all_kml_data (lines 24-69): the table returned (None when there is no
\* file or no point), the warnings and the error it shows.
load_all_kml_data(kml_files) ==
  IF kml_files = << >>
  THEN [ret |-> None, warned |-> {}, errors |-> {"no_kml_files"}]
  ELSE LET l == LoadLoop(kml_files, 1, << >>, {})
       IN  IF l.all_data # << >>
           THEN [ret |-> concat(l.all_data), warned |-> l.warned, errors |-> {}]
           ELSE [ret |-> None, warned |-> l.warned, errors |-> {}]

\* ------------------------------------------------------------------ lookup
\* series - scalar, element by element (lines 73-74).
Minus(series, scalar) == [i \in 1..Len(series) |-> series[i] - scalar]

\* Variant: the differences are added without being squared.
SumSquares_linear(a, b) == [i \in 1..Len(a) |-> a[i] + b[i]]

\* a**2 + b**2, element by element (line 75).
SumSquares(a, b) == [i \in 1..Len(a) |-> a[i] * a[i] + b[i] * b[i]]

\* Variant: an equal element replaces the best too (the last minimum).
RECURSIVE ArgMinFrom_last(_, _, _)
ArgMinFrom_last(series, pos, best) ==
  IF pos > Len(series) THEN best
  ELSE ArgMinFrom_last(series, pos + 1,
                       IF series[pos] <= series[best] THEN pos ELSE best)

\* Position of the first minimum of a non-empty series, scanning from pos
\* with the best position so far: a later element replaces the best only
\* when it is strictly smaller.
RECURSIVE ArgMinFrom(_, _, _)
ArgMinFrom(series, pos, best) ==
  IF pos > Len(series) THEN best
  ELSE ArgMinFrom(series, pos + 1,
                  IF series[pos] < series[best] THEN pos ELSE best)

\* Series.idxmin() (line 77): the index label of the first minimum.
idxmin(index, series) == index[ArgMinFrom(series, 2, 1)]

\* df.loc[label] (line 77): the row carrying that label, as a record of every
\* column of the frame and of the label itself (the Series' name), under
\* "index".  Labels are unique (RangeIndex).
loc(df, label) ==
  LET pos == CHOOSE i \in 1..NRows(df) : df.index[i] = label
  IN  [c \in DOMAIN df |-> df[c][pos]]

\* Integer square root by bisection: the largest r in lo..hi with r*r <= n.
RECURSIVE SqrtBetween(_, _, _)
SqrtBetween(n, lo, hi) ==
  IF lo >= hi THEN lo
  ELSE LET mid == (lo + hi + 1) \div 2
       IN  IF mid * mid <= n THEN SqrtBetween(n, mid, hi)
           ELSE SqrtBetween(n, lo, mid - 1)

\* Length of 0.001 degree of latitude and of longitude on the WGS-84
\* ellipsoid at 25 N, in decimetres (110.77 m and 100.91 m).
LatDm == 1108
LonDm == 1009

\* Square of the surface distance between two points given as <<lat, lon>>.
GeodesicSq(a, b) ==
  (LatDm * (a[1] - b[1])) * (LatDm * (a[1] - b[1]))
    + (LonDm * (a[2] - b[2])) * (LonDm * (a[2] - b[2]))

\* geodesic(a, b).meters (line 81), here in decimetres: the ellipsoidal
\* surface distance, which over the few hundred metres of the grid is the
\* length in the local metric of the ellipsoid.
geodesic(a, b) == SqrtBetween(GeodesicSq(a, b), 0, (LatDm + LonDm) * (GridMax + 1))

\* The distance, in decimetres, beyond which the result panel warns (line 173).
FarDm == 2000

\* Rank of row i when the rows are ordered by series, ties by position.
Rank(series, i) ==
  1 + Cardinality({ j \in 1..Len(series) :
                      series[j] < series[i] \/ (series[j] = series[i] /\ j < i) })

\* Variant: the differences overwrite the lat and lon columns.
ScratchFrame_inplace(df, user_lat, user_lon) ==
  LET df1 == SetColumn(df, "lat", Minus(df.lat, user_lat))
      df2 == SetColumn(df1, "lon", Minus(df1.lon, user_lon))
  IN  SetColumn(df2, "dist_sq", SumSquares(df2.lat, df2.lon))

\* Variant: the frame is left sorted by dist_sq, every row keeping its label.
ScratchFrame_sorted(df, user_lat, user_lon) ==
  LET df1 == SetColumn(df, "diff_lat", Minus(df.lat, user_lat))
      df2 == SetColumn(df1, "diff_lon", Minus(df1.lon, user_lon))
      df3 == SetColumn(df2, "dist_sq", SumSquares(df2.diff_lat, df2.diff_lon))
  IN  [c \in DOMAIN df3 |->
         [k \in 1..NRows(df3) |->
            df3[c][CHOOSE i \in 1..NRows(df3) : Rank(df3.dist_sq, i) = k]]]

\* The three column assignments of find_nearest_point (lines 73-75), in
\* order, each reading the frame the previous one left.
ScratchFrame(df, user_lat, user_lon) ==
  LET df1 == SetColumn(df, "diff_lat", Minus(df.lat, user_lat))
      df2 == SetColumn(df1, "diff_lon", Minus(df1.lon, user_lon))
  IN  SetColumn(df2, "dist_sq", SumSquares(df2.diff_lat, df2.diff_lon))

\* find_nearest_point (lines 71-83): the frame as the call leaves it (the
\* frame is mutated in place), the row returned and the distance returned.
\* On a frame without rows the call raises and returns nothing.
find_nearest_point(df, user_lat, user_lon) ==
  IF NRows(df) = 0
  THEN [frame |-> df, raised |-> TRUE, row |-> None, dist |-> 0]
  ELSE LET df3 == ScratchFrame(df, user_lat, user_lon)
       IN  LET nearest_row == loc(df3, idxmin(df3.index, df3.dist_sq))
               highway_pt == << nearest_row.lat, nearest_row.lon >>
               user_pt == << user_lat, user_lon >>
           IN  [frame |-> df3, raised |-> FALSE, row |-> nearest_row,
                dist |-> geodesic(user_pt, highway_pt)]

\* ------------------------------------------------------------------ inputs
\* The placemarks the files are made of: two named markers, a marker without
\* a <name> that carries an altitude, and one placemark of every malformed
\* shape.
MarkA    == Placemark(TRUE, "1K", TRUE, << << 3, 1 >> >>)
MarkB    == Placemark(TRUE, "2K", TRUE, << << 0, 3 >> >>)
MarkC    == Placemark(FALSE, "", TRUE, << << 2, 2, 0 >> >>)
NoCoord  == Placemark(TRUE, "3K", FALSE, << >>)
Blank    == Placemark(TRUE, "4K", TRUE, << >>)
OnePart  == Placemark(TRUE, "5K", TRUE, << << 1 >> >>)
BadLon   == Placemark(TRUE, "6K", TRUE, << << BAD, 1 >> >>)
BadLat   == Placemark(TRUE, "7K", TRUE, << << 1, BAD >> >>)
BadAlt   == Placemark(TRUE, "8K", TRUE, << << 1, 0, BAD >> >>)
BadLater == Placemark(TRUE, "9K", TRUE, << << 0, 1 >>, << BAD, BAD >> >>)

\* The placemarks of the lookup runs, and those of the loader runs.
Placemarks == { MarkA, MarkB, MarkC, NoCoord }
AllPlacemarks == { MarkA, MarkB, MarkC, NoCoord, Blank, OnePart, BadLon, BadLat,
                   BadAlt, BadLater }

\* Every list of at most n placemarks of the set pms.
RECURSIVE Contents(_, _)
Contents(pms, n) ==
  IF n = 0 THEN { << >> }
  ELSE Contents(pms, n - 1)
         \cup { Append(c, p) : c \in { c \in Contents(pms, n - 1) : Len(c) = n - 1 },
                               p \in pms }

File(base, readable, content) ==
  [base |-> base, readable |-> readable, content |-> content]

\* The first file: readable with up to MaxEntries placemarks, or unreadable.
FirstFiles(pms) ==
  { File("N1.kml", TRUE, c) : c \in Contents(pms, MaxEntries) }
    \cup { File("N1.kml", FALSE, << MarkA >>) }

\* The second file: readable with at most one placemark, or unreadable.
SecondFiles(pms) ==
  { File("N3.kml", TRUE, c) : c \in Contents(pms, 1) }
    \cup { File("N3.kml", FALSE, << MarkB >>) }

\* The data folders: no file, one file, two files.
Folders(pms) ==
  { << >> } \cup { << f >> : f \in FirstFiles(pms) }
    \cup { << f, g >> : f \in FirstFiles(pms), g \in SecondFiles(pms) }

\* The DMS form as first drawn (lines 125-141): 25 2' 53.00" N, 121 35' 4.00" E.
DefaultForm ==
  [n_deg |-> 25, n_min |-> 2, n_sec |-> 53000,
   e_deg |-> 121, e_min |-> 35, e_sec |-> 4000]

\* ------------------------------------------------------------ state machine
InitIn(folders) ==
  /\ data_folder \in folders
  /\ phase = "start"
  /\ cache = None
  /\ warnings = {}
  /\ shown = {}
  /\ df_all = None
  /\ u_lat = 0
  /\ u_lon = 0
  /\ result = None
  /\ form = DefaultForm
  /\ dd = None
  /\ passed = None
  /\ input_type = "DD"
  /\ stale = FALSE

\* The first script run (lines 89-92, 193-194): load_all_kml_data runs, its
\* return value is cached, and the page shows the form or the error.
Load ==
  /\ phase = "start"
  /\ \E l \in {load_all_kml_data(data_folder)} :
         /\ cache' = l.ret
         /\ df_all' = l.ret
         /\ warnings' = l.warned
         /\ IF l.ret # None
            THEN /\ phase' = "form"
                 /\ shown' = l.errors \cup {"loaded"}
            ELSE /\ phase' = "nodata"
                 /\ shown' = l.errors \cup {"no_data"}
  /\ UNCHANGED << data_folder, ddVars, dmsVars >>

\* A later script run without the query button (line 89 on a cache hit):
\* the script gets a fresh copy of the cached frame and draws no result.
Rerun ==
  /\ phase = "form"
  /\ df_all' = cache
  /\ result' = None
  /\ stale' = FALSE
  /\ shown' = {"loaded"}
  /\ UNCHANGED << data_folder, phase, cache, warnings, u_lat, u_lon, dmsVars >>

\* The query button with the decimal-degree inputs lat, lon (lines 105-114,
\* 147-176): find_nearest_point on the frame the script holds.  The frame may
\* still carry the scratch columns of an earlier call: the function is also
\* followed through repeated calls on one frame, not only on the fresh copy
\* that st.cache_data hands to each run.
Query(lat, lon) ==
  /\ phase = "form"
  /\ input_type = "DD"
  /\ stale' = ("dist_sq" \in DOMAIN df_all)
  /\ \E r \in {find_nearest_point(df_all, lat, lon)} :
         /\ df_all' = r.frame
         /\ result' = [raised |-> r.raised, row |-> r.row, dist_m |-> r.dist]
         /\ shown' = {"loaded"} \cup
                       (IF r.raised THEN {}
                        ELSE IF r.dist > FarDm THEN {"too_far"} ELSE {"precise"})
  /\ u_lat' = lat
  /\ u_lon' = lon
  /\ UNCHANGED << data_folder, phase, cache, warnings, dmsVars >>

Next ==
  \/ Load
  \/ Rerun
  \/ \E lat \in Grid, lon \in Grid : Query(lat, lon)

Init == InitIn(Folders(Placemarks))

Spec == Init /\ [][Next]_vars

\* The loader alone, over folders of every placemark shape.
InitLoad == InitIn(Folders(AllPlacemarks))

NextLoad == Load

SpecLoad == InitLoad /\ [][NextLoad]_vars

\* ---------------------------------------------------------------- DMS form
\* Thousandths of an arc second in one degree, one minute, one second.
MasPerDeg == 3600000
MasPerMin == 60000

\* dms_to_dd (lines 19-21): deg + minute/60 + sec/3600, here in thousandths
\* of an arc second, sec being given in thousandths of a second.
dms_to_dd(deg, minute, sec) == deg * MasPerDeg + minute * MasPerMin + sec

\* The limits of the number inputs (lines 125-141).
LatDegMax == 90
LonDegMax == 180
MinuteMax == 59
SecMax == 59999

\* The values tried in each input: its limits, and its default.
LatDegs == { 0, DefaultForm.n_deg, LatDegMax }
LatMins == { 0, DefaultForm.n_min, MinuteMax }
LatSecs == { 0, DefaultForm.n_sec, SecMax }
LonDegs == { 0, DefaultForm.e_deg, LonDegMax }
LonMins == { 0, DefaultForm.e_min, MinuteMax }
LonSecs == { 0, DefaultForm.e_sec, SecMax }

\* u_lat and u_lon of a run that draws the DMS form f (lines 131, 143).
Converted(f) ==
  [u_lat |-> dms_to_dd(f.n_deg, f.n_min, f.n_sec),
   u_lon |-> dms_to_dd(f.e_deg, f.e_min, f.e_sec)]

\* The radio is set to DMS (lines 97-100, 117): the run draws the DMS form
\* and converts what it holds.
SelectDMS ==
  /\ phase = "form"
  /\ input_type = "DD"
  /\ input_type' = "DMS"
  /\ dd' = Converted(form)
  /\ df_all' = cache
  /\ result' = None
  /\ stale' = FALSE
  /\ shown' = {"loaded"}
  /\ UNCHANGED << data_folder, phase, cache, warnings, u_lat, u_lon, form, passed >>

\* One of the latitude inputs is edited (lines 125-131): the run converts
\* the new values and draws no result.
EditLat(deg, minute, sec) ==
  /\ phase = "form"
  /\ input_type = "DMS"
  /\ form' = [form EXCEPT !.n_deg = deg, !.n_min = minute, !.n_sec = sec]
  /\ dd' = Converted(form')
  /\ passed' = None
  /\ UNCHANGED << data_folder, phase, cache, warnings, shown, df_all, ddVars,
                  input_type >>

\* One of the longitude inputs is edited (lines 137-143).
EditLon(deg, minute, sec) ==
  /\ phase = "form"
  /\ input_type = "DMS"
  /\ form' = [form EXCEPT !.e_deg = deg, !.e_min = minute, !.e_sec = sec]
  /\ dd' = Converted(form')
  /\ passed' = None
  /\ UNCHANGED << data_folder, phase, cache, warnings, shown, df_all, ddVars,
                  input_type >>

\* The query button under the DMS form (lines 147, 158-160): the converted
\* coordinate is handed to find_nearest_point.  Only the coordinate handed
\* over is kept here; the lookup itself is the one of Query.
QueryDMS ==
  /\ phase = "form"
  /\ input_type = "DMS"
  /\ passed' = << dd.u_lat, dd.u_lon >>
  /\ UNCHANGED << data_folder, phase, cache, warnings, shown, df_all, ddVars,
                  form, dd, input_type >>

InitDMS == InitIn({ << >>, << File("N1.kml", TRUE, << MarkA, MarkB >>) >> })

NextDMS ==
  \/ Load
  \/ SelectDMS
  \/ \E deg \in LatDegs, minute \in LatMins, sec \in LatSecs : EditLat(deg, minute, sec)
  \/ \E deg \in LonDegs, minute \in LonMins, sec \in LonSecs : EditLon(deg, minute, sec)
  \/ QueryDMS

SpecDMS == InitDMS /\ [][NextDMS]_vars

\* ================================================================== claims
\* A lookup has returned a row.
Queried == result # None /\ ~result.raised

\* Squared degree-space distance of row j of the table as loaded to the query.
DegSq(j) ==
  (cache.lat[j] - u_lat) * (cache.lat[j] - u_lat)
    + (cache.lon[j] - u_lon) * (cache.lon[j] - u_lon)

\* Squared surface distance of row j of the table as loaded to the query.
TrueSq(j) == GeodesicSq(<< u_lat, u_lon >>, << cache.lat[j], cache.lon[j] >>)

\* Position, in the table as loaded, of the row the lookup returned.
Chosen == result.row.index + 1

\* C1: the row returned is a row of the table whose squared degree-space
\* distance to the query is minimal over the whole table, and every row
\* before it in table order is strictly farther.
C1_FirstMinimum ==
  Queried =>
    /\ Chosen \in 1..NRows(cache)
    /\ result.row.lat = cache.lat[Chosen]
    /\ result.row.lon = cache.lon[Chosen]
    /\ \A j \in 1..NRows(cache) : DegSq(Chosen) <= DegSq(j)
    /\ \A j \in 1..(Chosen - 1) : DegSq(Chosen) < DegSq(j)

\* C1 witness: a lookup in which a later row ties with the row returned.
C1_Witness ==
  /\ Queried
  /\ \E j \in 1..NRows(cache) : j > Chosen /\ DegSq(j) = DegSq(Chosen)
  /\ \E j \in 1..NRows(cache) : DegSq(j) > DegSq(Chosen)

\* C2: the name, lat, lon and source of the row returned are those of one
\* row of the table as loaded.
C2_Member ==
  Queried =>
    \E j \in 1..NRows(cache) :
      /\ result.row.name = cache.name[j]
      /\ result.row.lat = cache.lat[j]
      /\ result.row.lon = cache.lon[j]
      /\ result.row.source = cache.source[j]

\* C2 witness: a lookup away from the origin on a table of three rows from
\* two files.
C2_Witness ==
  /\ Queried
  /\ NRows(cache) = 3
  /\ cache.source[1] # cache.source[3]
  /\ u_lat > 0
  /\ u_lon > 0

\* C3 (as claimed): when one row is strictly nearer to the query in surface
\* distance than every other row, the lookup returns that row.
C3_TrueNearest ==
  Queried =>
    \A p \in 1..NRows(cache) :
      (\A j \in 1..NRows(cache) : j # p => TrueSq(p) < TrueSq(j)) => Chosen = p

\* C4: when the query has the coordinates of some row of the table, the row
\* returned has the coordinates of the query and the distance returned is 0.
C4_Coincident ==
  (Queried /\ \E j \in 1..NRows(cache) : cache.lat[j] = u_lat /\ cache.lon[j] = u_lon)
    => /\ result.row.lat = u_lat
       /\ result.row.lon = u_lon
       /\ result.dist_m = 0

\* C4 witness: a query on the coordinates of a row that is not the first of
\* the table.
C4_Witness ==
  /\ Queried
  /\ NRows(cache) >= 2
  /\ Chosen > 1
  /\ cache.lat[Chosen] = u_lat
  /\ cache.lon[Chosen] = u_lon
  /\ result.dist_m = 0

\* A placemark the parser loads: a <coordinates> tag whose first tuple has at
\* least two parts, the first two of which float() accepts.
WellFormed(p) ==
  /\ p.hasCoord
  /\ p.tuples # << >>
  /\ Len(p.tuples[1]) >= 2
  /\ IsFloat(p.tuples[1][1])
  /\ IsFloat(p.tuples[1][2])

\* No file of the folder yields a point.
EmptyDataset ==
  \A i \in 1..Len(data_folder) :
    data_folder[i].readable =>
      \A k \in 1..Len(data_folder[i].content) : ~WellFormed(data_folder[i].content[k])

\* C5: once the script has run on an empty dataset there is no table, an
\* error is on the page and no lookup has been made; and whenever the form
\* is up or a lookup has been made the table holds at least one row.
C5_EmptyDataset ==
  /\ (phase # "start" /\ EmptyDataset) =>
        /\ phase = "nodata"
        /\ cache = None
        /\ df_all = None
        /\ "no_data" \in shown
        /\ (data_folder = << >> => "no_kml_files" \in shown)
        /\ result = None
  /\ phase = "nodata" => result = None
  /\ (phase = "form" \/ result # None) =>
        /\ cache # None
        /\ NRows(cache) >= 1
        /\ NRows(df_all) >= 1
        /\ (result # None => ~result.raised)

\* C5 witness: the error page for a folder whose files hold placemarks, none
\* of them with a point.
C5_Witness ==
  /\ phase = "nodata"
  /\ data_folder # << >>
  /\ \E i \in 1..Len(data_folder) :
       data_folder[i].readable /\ data_folder[i].content # << >>

\* The rows of the table that carry the source base, as name/lat/lon records
\* in table order (none when there is no table).
RowsFrom(base) ==
  IF cache = None THEN << >>
  ELSE LET pos == SelectSeq(cache.index, LAMBDA l : cache.source[l + 1] = base)
       IN  [k \in 1..Len(pos) |->
              [name |-> cache.name[pos[k] + 1],
               lat  |-> cache.lat[pos[k] + 1],
               lon  |-> cache.lon[pos[k] + 1]]]

\* What a well-formed placemark is loaded as.
LoadedAs(p) ==
  [name |-> IF p.hasName THEN p.name ELSE Unnamed,
   lat  |-> p.tuples[1][2],
   lon  |-> p.tuples[1][1]]

\* C6 (amended): after the load, the rows of every readable file are its
\* well-formed placemarks, all of them and in their order, and the file is
\* not warned about; every other placemark adds nothing.
C6_SkippedAlone ==
  phase # "start" =>
    \A i \in 1..Len(data_folder) :
      data_folder[i].readable =>
        LET wf == SelectSeq(data_folder[i].content, WellFormed)
        IN  /\ RowsFrom(data_folder[i].base) = [k \in 1..Len(wf) |-> LoadedAs(wf[k])]
            /\ data_folder[i].base \notin warnings

\* C6 witness: a file loaded with a placemark that raises before a
\* placemark that is loaded.
C6_Witness ==
  /\ phase = "form"
  /\ \E i \in 1..Len(data_folder) :
       /\ data_folder[i].readable
       /\ Len(data_folder[i].content) >= 2
       /\ Raises(data_folder[i].content[1])
       /\ WellFormed(data_folder[i].content[2])
       /\ Len(RowsFrom(data_folder[i].base)) = 1

\* A placemark the claim calls malformed: no coordinates, fewer than two
\* parts, or a part that float() rejects.
MalformedAsClaimed(p) ==
  \/ ~p.hasCoord
  \/ p.tuples = << >>
  \/ Len(p.tuples[1]) < 2
  \/ \E k \in 1..Len(p.tuples[1]) : ~IsFloat(p.tuples[1][k])

\* C6 (as claimed): after the load, a readable file has as many rows as it
\* has placemarks that are not malformed in the claim's sense.
C6_AsClaimed ==
  phase # "start" =>
    \A i \in 1..Len(data_folder) :
      data_folder[i].readable =>
        Len(RowsFrom(data_folder[i].base))
          = Len(SelectSeq(data_folder[i].content, LAMBDA p : ~MalformedAsClaimed(p)))

\* The files of the folder that can, and that cannot, be read.
Readable == { i \in 1..Len(data_folder) : data_folder[i].readable }
Unreadable == { i \in 1..Len(data_folder) : ~data_folder[i].readable }

\* C7: the load ends whatever files are unreadable; exactly the unreadable
\* files are warned about; no row carries the name of an unreadable file;
\* every readable file has its parsed rows in the table, tagged with its
\* basename, and the table holds nothing else and keeps the files' order.
C7_UnreadableExcluded ==
  phase # "start" =>
    /\ phase \in {"form", "nodata"}
    /\ warnings = { data_folder[i].base : i \in Unreadable }
    /\ \A i \in Unreadable : RowsFrom(data_folder[i].base) = << >>
    /\ \A i \in Readable :
         RowsFrom(data_folder[i].base) = ParseLoop(data_folder[i].content)
    /\ cache # None =>
         /\ \A j \in 1..NRows(cache) :
              \E i \in Readable : cache.source[j] = data_folder[i].base
         /\ \A j \in 1..NRows(cache), k \in 1..NRows(cache) :
              (j < k) =>
                \E a \in Readable, b \in Readable :
                  /\ a <= b
                  /\ cache.source[j] = data_folder[a].base
                  /\ cache.source[k] = data_folder[b].base
    /\ (cache = None) <=> (\A i \in Readable : ParseLoop(data_folder[i].content) = << >>)

\* C7 witness: a table loaded from the second file after a warning about the
\* first.
C7_Witness ==
  /\ phase = "form"
  /\ Len(data_folder) = 2
  /\ ~data_folder[1].readable
  /\ data_folder[1].base \in warnings
  /\ NRows(cache) >= 1
  /\ cache.source[1] = data_folder[2].base

\* C8: while the form is up, the marker columns of the frame the script
\* holds are those of the table as loaded (rows, order, name, lat, lon,
\* source), and the frame has no other column than the three scratch ones.
C8_MarkersUnchanged ==
  phase = "form" =>
    /\ Markers(df_all) = cache
    /\ DOMAIN df_all \subseteq MarkerColumns \cup ScratchColumns
    /\ result # None => ScratchColumns \subseteq DOMAIN df_all

\* C8 witness: a lookup on a frame that an earlier lookup had written to,
\* on a table of several rows.
C8_Witness ==
  /\ Queried
  /\ stale
  /\ NRows(cache) >= 2
  /\ df_all.dist_sq[1] # df_all.dist_sq[2]

\* C9: what a lookup returns is what the same lookup returns on the table
\* as loaded, whatever lookups the frame has been through.
C9_HistoryFree ==
  Queried =>
    LET fresh == find_nearest_point(cache, u_lat, u_lon)
    IN  /\ result.row = fresh.row
        /\ result.dist_m = fresh.dist

\* C9 witness: a lookup, on a frame an earlier lookup had written to, that
\* returns a row other than the first.
C9_Witness ==
  /\ Queried
  /\ stale
  /\ Chosen > 1

\* C10 (as claimed): the coordinate the DMS run hands to the lookup has its
\* latitude within 0..90 degrees and its longitude within 0..180 degrees.
C10_InRange ==
  passed # None =>
    /\ passed[1] >= 0
    /\ passed[1] <= LatDegMax * MasPerDeg
    /\ passed[2] >= 0
    /\ passed[2] <= LonDegMax * MasPerDeg

====
